---- MODULE Spec2Model ----
(***************************************************************************)
(* A model of fitparse-rs: the typed value algebra of src/objects.rs       *)
(* (DataFieldValue: is_valid, as_f64, as_i64, to_ne_bytes, Add, AddAssign) *)
(* and the profile compiler of src/profile/parser.rs (process_types,       *)
(* process_messages, parse_profile).                                       *)
(*                                                                         *)
(* Numbers.  An integer payload of w bytes is written as its w base-256    *)
(* digits, least significant digit first (digit i has weight 256^(i-1));   *)
(* a signed payload is its two's complement bit pattern.  This is the      *)
(* number itself, not a byte order: the order in which to_ne_bytes emits   *)
(* the digits depends on the target (variable endian).                     *)
(*                                                                         *)
(* Floats.  A float is [cls, neg, mag]: cls is "finite", "inf" or "nan",   *)
(* neg the sign, and mag the magnitude counted in halves, as FMagLen       *)
(* base-256 digits.  The model covers the floats that are multiples of     *)
(* 0.5; every operation rounds to the 24 or 53 significant bits of f32 or  *)
(* f64 (round to nearest, ties to even).                                   *)
(***************************************************************************)
EXTENDS Integers, Sequences, FiniteSets, TLC

VARIABLES
    pc,              \* position of the running call
    a,               \* self of the value operation
    b,               \* other of the value operation (NoValue for a unary one)
    endian,          \* byte order of the target the crate was built for
    overflowChecks,  \* whether the build has overflow-checks on (debug) or off (release)
    res,             \* what the value operation returned, or how it panicked
    workbook,        \* the workbook parse_profile opens: its sheets, or unreadable
    sheet,           \* the rows of the sheet being scanned
    row_i,           \* index in sheet of the next row the scan reads
    field_types,     \* process_types: field_types; then parse_profile's local
    messages,        \* process_messages: messages; then parse_profile's local
    msg,             \* process_messages: the message definition being filled
    last_def_number, \* process_messages: last_def_number
    ret,             \* what parse_profile / process_* returned, or how it panicked
    record,          \* the raw record apply_data_profile resolves
    decoded          \* the decoded fields of that record so far

vars == <<pc, a, b, endian, overflowChecks, res, workbook, sheet, row_i,
          field_types, messages, msg, last_def_number, ret, record, decoded>>

(***************************************************************************)
(* Bounds of the model.                                                    *)
(***************************************************************************)
MaxArrayLen == 3
MaxStrLen == 2
MaxTypeRows == 3
MaxMsgRows == 3

(***************************************************************************)
(* Base-256 digit arithmetic (the integer types of the payloads).          *)
(***************************************************************************)
I64Len == 8
FMagLen == 10

Min(x, y) == IF x < y THEN x ELSE y
Max(x, y) == IF x > y THEN x ELSE y

RECURSIVE Pow2(_)
Pow2(n) == IF n = 0 THEN 1 ELSE 2 * Pow2(n - 1)

Zeros(n) == [i \in 1..n |-> 0]
Ones(n) == [i \in 1..n |-> 255]
\* the number k (0 <= k < 256) in n digits
Small(k, n) == [i \in 1..n |-> IF i = 1 THEN k ELSE 0]

\* the sign bit of a two's complement pattern
SignBit(x) == x[Len(x)] >= 128

RECURSIVE CarryOut(_, _, _, _)
\* the carry out of digit i of x + y + c0
CarryOut(x, y, c0, i) ==
    IF i = 0 THEN c0 ELSE (x[i] + y[i] + CarryOut(x, y, c0, i - 1)) \div 256

\* x + y + c0 on Len(x) digits, the carry out dropped
AddDigits(x, y, c0) ==
    [i \in 1..Len(x) |-> (x[i] + y[i] + CarryOut(x, y, c0, i - 1)) % 256]

Complement(x) == [i \in 1..Len(x) |-> 255 - x[i]]
\* two's complement negation
Negate(x) == AddDigits(Complement(x), Zeros(Len(x)), 1)
\* x - y on Len(x) digits (for x >= y as naturals: the difference)
SubDigits(x, y) == AddDigits(x, Complement(y), 1)

RECURSIVE LessFrom(_, _, _)
\* x < y as naturals, comparing digits i, i-1, ..., 1
LessFrom(x, y, i) ==
    IF i = 0 THEN FALSE
    ELSE IF x[i] # y[i] THEN x[i] < y[i]
    ELSE LessFrom(x, y, i - 1)
Less(x, y) == LessFrom(x, y, Len(x))

\* "as" between integer types: truncation to n digits, or extension of x
\* (sign extension when x is of a signed type) to n digits
Cast(x, signed, n) ==
    [i \in 1..n |-> IF i <= Len(x) THEN x[i]
                    ELSE IF signed /\ SignBit(x) THEN 255 ELSE 0]

\* bit k (1 = least significant) of x
Bit(x, k) == (x[((k - 1) \div 8) + 1] \div Pow2((k - 1) % 8)) % 2

RECURSIVE TopBitFrom(_, _)
TopBitFrom(x, k) ==
    IF k = 0 THEN 0 ELSE IF Bit(x, k) = 1 THEN k ELSE TopBitFrom(x, k - 1)
\* position of the highest set bit of x (0 when x is zero)
TopBit(x) == TopBitFrom(x, 8 * Len(x))

\* x with its d low bits cleared
ClearLow(x, d) ==
    [i \in 1..Len(x) |->
        IF 8 * i <= d THEN 0
        ELSE IF 8 * (i - 1) >= d THEN x[i]
        ELSE (x[i] \div Pow2(d - 8 * (i - 1))) * Pow2(d - 8 * (i - 1))]

\* 2^d in n digits
Pow2Digits(d, n) == [i \in 1..n |-> IF i = (d \div 8) + 1 THEN Pow2(d % 8) ELSE 0]

\* x shifted by one bit: doubled, halved
ShiftLeft1(x) == AddDigits(x, x, 0)
ShiftRight1(x) ==
    [i \in 1..Len(x) |->
        (x[i] \div 2) + (IF i < Len(x) THEN (x[i + 1] % 2) * 128 ELSE 0)]

(***************************************************************************)
(* Floats (f32 and f64 payloads; "as" to and from the integer types).      *)
(***************************************************************************)
F32Bits == 24
F64Bits == 53

FNaN == [cls |-> "nan", neg |-> FALSE, mag |-> Zeros(FMagLen)]
FInf(neg) == [cls |-> "inf", neg |-> neg, mag |-> Zeros(FMagLen)]
FFin(neg, mag) == [cls |-> "finite", neg |-> neg, mag |-> mag]

\* the magnitude m rounded to p significant bits, to nearest, ties to even
RoundMag(m, p) ==
    LET d == TopBit(m) - p IN
    IF d <= 0 THEN m
    ELSE LET kept == ClearLow(m, d)
             half == Bit(m, d) = 1
             sticky == \E k \in 1..(d - 1) : Bit(m, k) = 1
             odd == Bit(m, d + 1) = 1
         IN  IF half /\ (sticky \/ odd)
             THEN AddDigits(kept, Pow2Digits(d, Len(m)), 0)
             ELSE kept

\* x as f64 (p = 53) of an integer x
IntToFloat(x, signed, p) ==
    LET neg == signed /\ SignBit(x)
        whole == Cast(IF neg THEN Negate(x) ELSE x, FALSE, FMagLen)
    IN  FFin(neg, RoundMag(ShiftLeft1(whole), p))

\* f as f32, f as f64 of a float f
FloatToFloat(f, p) ==
    IF f.cls = "finite" THEN FFin(f.neg, RoundMag(f.mag, p)) ELSE f

I64Max == [i \in 1..I64Len |-> IF i = I64Len THEN 127 ELSE 255]
I64Min == [i \in 1..I64Len |-> IF i = I64Len THEN 128 ELSE 0]

\* f as i64: truncation toward zero, saturating, NaN to 0
FloatToI64(f) ==
    IF f.cls = "nan" THEN Zeros(I64Len)
    ELSE LET whole == ShiftRight1(f.mag)
             big == f.cls = "inf" \/ TopBit(whole) >= 8 * I64Len
         IN  IF f.neg
             THEN (IF big THEN I64Min ELSE Negate(Cast(whole, FALSE, I64Len)))
             ELSE (IF big THEN I64Max ELSE Cast(whole, FALSE, I64Len))

\* x + y of floats, the result of p significant bits
FloatAdd(x, y, p) ==
    IF x.cls = "nan" \/ y.cls = "nan" THEN FNaN
    ELSE IF x.cls = "inf" /\ y.cls = "inf" THEN (IF x.neg = y.neg THEN x ELSE FNaN)
    ELSE IF x.cls = "inf" THEN x
    ELSE IF y.cls = "inf" THEN y
    ELSE IF x.neg = y.neg THEN FFin(x.neg, RoundMag(AddDigits(x.mag, y.mag, 0), p))
    ELSE IF x.mag = y.mag THEN FFin(FALSE, Zeros(FMagLen))
    ELSE IF Less(x.mag, y.mag) THEN FFin(y.neg, RoundMag(SubDigits(y.mag, x.mag), p))
    ELSE FFin(x.neg, RoundMag(SubDigits(x.mag, y.mag), p))

\* bit k (1 = least significant) of the IEEE 754 pattern of f, of p
\* significant bits and an exponent field of eb bits
FloatBit(f, p, eb, k) ==
    LET top == TopBit(f.mag)
        bias == Pow2(eb - 1) - 1
        e == IF f.cls # "finite" THEN Pow2(eb) - 1
             ELSE IF top = 0 THEN 0
             ELSE top - 2 + bias
    IN  IF k = p + eb THEN (IF f.neg THEN 1 ELSE 0)
        ELSE IF k >= p THEN (e \div Pow2(k - p)) % 2
        ELSE IF f.cls = "nan" THEN (IF k = p - 1 THEN 1 ELSE 0)
        ELSE IF f.cls = "inf" \/ top = 0 THEN 0
        ELSE IF top - p + k >= 1 THEN Bit(f.mag, top - p + k)
        ELSE 0

RECURSIVE FloatDigit(_, _, _, _, _)
\* digit i of the pattern, from its bits t..8
FloatDigit(f, p, eb, i, t) ==
    IF t > 8 THEN 0
    ELSE FloatBit(f, p, eb, 8 * (i - 1) + t) * Pow2(t - 1) + FloatDigit(f, p, eb, i, t + 1)

\* the IEEE 754 pattern of f as a number of (p + eb) / 8 digits
FloatPattern(f, p, eb) == [i \in 1..((p + eb) \div 8) |-> FloatDigit(f, p, eb, i, 1)]

(***************************************************************************)
(* DataFieldValue (src/objects.rs).  A value is [tag, v]: v is the digits  *)
(* of an integer payload, the float of a Float32/Float64, the bytes of a   *)
(* String, the epoch seconds (an i64) of a Timestamp, the sequence of      *)
(* elements of an Array.                                                   *)
(***************************************************************************)
IntTags ==
    {"Byte", "Enum", "SInt8", "UInt8", "SInt16", "UInt16", "SInt32", "UInt32",
     "UInt8z", "UInt16z", "UInt32z", "SInt64", "UInt64", "UInt64z"}
FloatTags == {"Float32", "Float64"}

\* the payload's width in bytes
Width(tag) ==
    CASE tag \in {"Byte", "Enum", "SInt8", "UInt8", "UInt8z"} -> 1
      [] tag \in {"SInt16", "UInt16", "UInt16z"} -> 2
      [] tag \in {"SInt32", "UInt32", "UInt32z", "Float32"} -> 4
      [] tag \in {"SInt64", "UInt64", "UInt64z", "Float64", "Timestamp"} -> 8

\* whether the payload's type is a signed integer
IsSigned(tag) == tag \in {"SInt8", "SInt16", "SInt32", "SInt64", "Timestamp"}

Val(tag, v) == [tag |-> tag, v |-> v]
NoValue == [tag |-> "none", v |-> <<>>]

Some(x) == [some |-> TRUE, v |-> x]
None == [some |-> FALSE, v |-> <<>>]

\* 0x7F, 0x7FFF, ...: the largest value of the signed type of n bytes
SignedMax(n) == [i \in 1..n |-> IF i = n THEN 127 ELSE 255]

RECURSIVE is_valid_all_only(_)
\* is_valid with the Array arm written as vals.iter().all(|v| v.is_valid())
is_valid_all_only(x) ==
    CASE x.tag \in {"Enum", "UInt8", "Byte"} -> x.v # Ones(1)
      [] x.tag \in {"SInt8", "SInt16", "SInt32", "SInt64"} -> x.v # SignedMax(Width(x.tag))
      [] x.tag \in {"UInt16", "UInt32", "UInt64"} -> x.v # Ones(Width(x.tag))
      [] x.tag \in {"UInt8z", "UInt16z", "UInt32z", "UInt64z"} -> x.v # Zeros(Width(x.tag))
      [] x.tag = "String" -> ~(\E i \in 1..Len(x.v) : x.v[i] = 0)
      [] x.tag = "Timestamp" -> TRUE
      [] x.tag \in FloatTags -> x.v.cls = "finite"
      [] x.tag = "Array" -> \A i \in 1..Len(x.v) : is_valid_all_only(x.v[i])

RECURSIVE is_valid(_)
is_valid(x) ==
    CASE x.tag = "Enum" -> x.v # Ones(1)
      [] x.tag = "SInt8" -> x.v # SignedMax(1)
      [] x.tag = "UInt8" -> x.v # Ones(1)
      [] x.tag = "SInt16" -> x.v # SignedMax(2)
      [] x.tag = "UInt16" -> x.v # Ones(2)
      [] x.tag = "SInt32" -> x.v # SignedMax(4)
      [] x.tag = "UInt32" -> x.v # Ones(4)
      [] x.tag = "String" -> ~(\E i \in 1..Len(x.v) : x.v[i] = 0)
      [] x.tag = "Timestamp" -> TRUE
      [] x.tag = "Float32" -> x.v.cls = "finite"
      [] x.tag = "Float64" -> x.v.cls = "finite"
      [] x.tag = "UInt8z" -> x.v # Zeros(1)
      [] x.tag = "UInt16z" -> x.v # Zeros(2)
      [] x.tag = "UInt32z" -> x.v # Zeros(4)
      [] x.tag = "Byte" -> x.v # Ones(1)
      [] x.tag = "SInt64" -> x.v # SignedMax(8)
      [] x.tag = "UInt64" -> x.v # Ones(8)
      [] x.tag = "UInt64z" -> x.v # Zeros(8)
      [] x.tag = "Array" -> Len(x.v) # 0 /\ \A i \in 1..Len(x.v) : is_valid(x.v[i])

\* the tags as_f64 has an arm for: every integer tag but Enum
AsF64IntTags == IntTags \ {"Enum"}

as_f64(x) ==
    IF x.tag \in AsF64IntTags THEN Some(IntToFloat(x.v, IsSigned(x.tag), F64Bits))
    ELSE IF x.tag \in FloatTags THEN Some(FloatToFloat(x.v, F64Bits))
    ELSE None

\* as_i64 with a catch-all arm that yields Some(0)
as_i64_catch_all(x) ==
    IF x.tag \in IntTags THEN Some(Cast(x.v, IsSigned(x.tag), I64Len))
    ELSE IF x.tag = "Timestamp" THEN Some(x.v)
    ELSE IF x.tag \in FloatTags THEN Some(FloatToI64(x.v))
    ELSE Some(Zeros(I64Len))

as_i64(x) ==
    IF x.tag \in IntTags THEN Some(Cast(x.v, IsSigned(x.tag), I64Len))
    ELSE IF x.tag = "Timestamp" THEN Some(x.v)
    ELSE IF x.tag \in FloatTags THEN Some(FloatToI64(x.v))
    ELSE None

Reverse(s) == [i \in 1..Len(s) |-> s[Len(s) + 1 - i]]

\* {integer}::to_ne_bytes, {float}::to_ne_bytes: the bytes of the number
\* x in memory on a target of byte order e
NeBytes(x, e) == IF e = "little" THEN x ELSE Reverse(x)

RECURSIVE ConcatBytes(_, _, _)
RECURSIVE to_ne_bytes(_, _)
\* flat_map over the elements i..Len(vals)
ConcatBytes(vals, e, i) ==
    IF i > Len(vals) THEN <<>>
    ELSE to_ne_bytes(vals[i], e) \o ConcatBytes(vals, e, i + 1)

to_ne_bytes(x, e) ==
    CASE x.tag \in {"Byte", "Enum", "SInt8", "UInt8", "UInt8z"} -> <<x.v[1]>>
      [] x.tag \in IntTags /\ Width(x.tag) > 1 -> NeBytes(x.v, e)
      [] x.tag = "String" -> x.v
      [] x.tag = "Timestamp" -> NeBytes(x.v, e)
      [] x.tag = "Float32" -> NeBytes(FloatPattern(x.v, F32Bits, 8), e)
      [] x.tag = "Float64" -> NeBytes(FloatPattern(x.v, F64Bits, 11), e)
      [] x.tag = "Array" -> ConcatBytes(x.v, e, 1)

(***************************************************************************)
(* impl Add for DataFieldValue.  A call returns a value or panics.         *)
(***************************************************************************)
Value(x) == [kind |-> "value", val |-> x, msg |-> ""]
Panic(m) == [kind |-> "panic", val |-> NoValue, msg |-> m]

\* val + rhs on an integer type: panics on overflow when the build has
\* overflow-checks on, wraps when it has not
IntAdd(tag, x, rhs, oc) ==
    LET sum == AddDigits(x, rhs, 0)
        overflow == IF IsSigned(tag)
                    THEN SignBit(x) = SignBit(rhs) /\ SignBit(sum) # SignBit(x)
                    ELSE CarryOut(x, rhs, 0, Len(x)) = 1
    IN  IF overflow /\ oc THEN Panic("attempt to add with overflow")
        ELSE Value(Val(tag, sum))

RECURSIVE add(_, _, _)
RECURSIVE AddEach(_, _, _, _)
\* vals.into_iter().map(|v| v + other.clone()).collect(), from element i:
\* the first panic unwinds out of collect
AddEach(vals, other, oc, i) ==
    IF i > Len(vals) THEN Value(Val("Array", <<>>))
    ELSE LET head == add(vals[i], other, oc) IN
         IF head.kind = "panic" THEN head
         ELSE LET tail == AddEach(vals, other, oc, i + 1) IN
              IF tail.kind = "panic" THEN tail
              ELSE Value(Val("Array", <<head.val>> \o tail.val.v))

add(x, other, oc) ==
    CASE x.tag \in IntTags ->
            LET o == as_i64(other) IN
            IF o.some THEN IntAdd(x.tag, x.v, Cast(o.v, TRUE, Width(x.tag)), oc)
            ELSE Panic("Cannot coerce value to integer")
      [] x.tag = "String" ->
            IF other.tag = "String" THEN Value(Val("String", x.v \o other.v))
            ELSE Panic("Cannot add non-string to string")
      [] x.tag = "Timestamp" -> Panic("Cannot add timestamps")
      [] x.tag = "Float32" ->
            LET o == as_f64(other) IN
            IF o.some
            THEN Value(Val("Float32", FloatAdd(x.v, FloatToFloat(o.v, F32Bits), F32Bits)))
            ELSE Panic("Cannot coerce value to float")
      [] x.tag = "Float64" ->
            LET o == as_f64(other) IN
            IF o.some THEN Value(Val("Float64", FloatAdd(x.v, o.v, F64Bits)))
            ELSE Panic("Cannot coerce value to float")
      [] x.tag = "Array" ->
            IF other.tag = "Array"
            THEN \* iter_mut().zip(..).map(|(v, o)| *v += o) is built and dropped:
                 \* a map adapter runs its closure only when it is consumed, so
                 \* no element is added and the longer vector is returned as it was
                 (IF Len(x.v) > Len(other.v) THEN Value(Val("Array", x.v))
                  ELSE Value(Val("Array", other.v)))
            ELSE AddEach(x.v, other, oc, 1)

\* impl AddAssign: *self = self.clone() + other; the new self, or the panic
add_assign(x, other, oc) == add(x, other, oc)

(***************************************************************************)
(* The inputs of the value operations.                                     *)
(***************************************************************************)
\* all sequences over S of length 0..n
SeqsUpTo(S, n) == UNION {[1..k -> S] : k \in 0..n}

EdgeDigits == {0, 1, 127, 128, 254, 255}

\* payloads of w bytes: every payload of one byte; for wider types the
\* payloads that differ in at most one digit from 0, from all ones, from
\* the largest and from the smallest signed value
IntPayloads(w) ==
    IF w = 1 THEN {<<d>> : d \in 0..255}
    ELSE {[i \in 1..w |-> IF i = k THEN d ELSE base[i]] :
            base \in {Zeros(w), Ones(w), SignedMax(w), Complement(SignedMax(w))},
            k \in 1..w, d \in EdgeDigits}

\* 0.0, -0.0, 1.5, -1.5, 2.5, -2.5, 2^64, -2^64, the infinities and NaN
FloatSamples ==
    {FFin(n, Cast(m, FALSE, FMagLen)) :
        n \in BOOLEAN, m \in {<<0>>, <<3>>, <<5>>, <<0, 0, 0, 0, 0, 0, 0, 0, 2>>}}
    \cup {FInf(FALSE), FInf(TRUE), FNaN}

StringSamples == SeqsUpTo({0, 97, 98}, MaxStrLen)
TimestampSamples == {Zeros(I64Len), Ones(I64Len), <<0, 94, 208, 178, 0, 0, 0, 0>>}

Scalars ==
    UNION {{Val(t, p) : p \in IntPayloads(Width(t))} : t \in IntTags}
    \cup {Val(t, f) : t \in FloatTags, f \in FloatSamples}
    \cup {Val("String", s) : s \in StringSamples}
    \cup {Val("Timestamp", s) : s \in TimestampSamples}

\* arrays are homogeneous in their element tag
ArraysOf(tag, payloads) ==
    {Val("Array", [i \in 1..Len(ps) |-> Val(tag, ps[i])]) : ps \in SeqsUpTo(payloads, MaxArrayLen)}

UnaryArrays ==
    ArraysOf("UInt8", {<<1>>, <<255>>})
    \cup ArraysOf("SInt16", {<<255, 127>>, <<2, 1>>})
    \cup ArraysOf("UInt32z", {Zeros(4), <<4, 3, 2, 1>>})
    \cup ArraysOf("String", {<<97>>, <<0>>})

UnaryInputs == Scalars \cup UnaryArrays

\* numbers near the ends of each integer type's range
AddPayloads(w) == {Small(1, w), Small(10, w), Small(250, w), Ones(w), SignedMax(w)}

AddScalars ==
    UNION {{Val(t, p) : p \in AddPayloads(Width(t))} : t \in IntTags}
    \cup {Val(t, f) : t \in FloatTags,
                      f \in {FFin(FALSE, Cast(<<3>>, FALSE, FMagLen)),
                             FFin(TRUE, Cast(<<5>>, FALSE, FMagLen)),
                             FFin(FALSE, Cast(<<0, 0, 0, 0, 0, 0, 0, 0, 2>>, FALSE, FMagLen)),
                             FNaN}}
    \cup {Val("String", <<>>), Val("String", <<97>>)}
    \cup {Val("Timestamp", <<0, 94, 208, 178, 0, 0, 0, 0>>)}

LeftArrays ==
    ArraysOf("UInt8", {<<1>>, <<2>>, <<3>>}) \cup ArraysOf("SInt16", {Ones(2)})
RightArrays ==
    ArraysOf("UInt8", {<<10>>, <<20>>}) \cup ArraysOf("UInt16", {<<44, 1>>})
MixedArrays ==
    ArraysOf("UInt8", {<<1>>, <<250>>}) \cup ArraysOf("String", {<<97>>})

AddInputs ==
    (AddScalars \X AddScalars)
    \cup (LeftArrays \X RightArrays)
    \cup (RightArrays \X LeftArrays)
    \cup (MixedArrays \X AddScalars)
    \cup (AddScalars \X MixedArrays)

(***************************************************************************)
(* The value operations as a state machine: one call, on a and b.          *)
(***************************************************************************)
NoRes == [op |-> "none", out |-> <<>>]
NoWorkbook == [readable |-> FALSE, Types |-> <<>>, Messages |-> <<>>]
NoMsg == [name |-> <<>>, field_map |-> <<>>]
NoRet == [kind |-> "none", msg |-> "", field_types |-> <<>>, messages |-> <<>>]
NoRecord == [message |-> <<>>, fields |-> <<>>]

\* no record is being resolved
ResolverIdle ==
    /\ record = NoRecord
    /\ decoded = <<>>

resolverVars == <<record, decoded>>

ProfileIdle ==
    /\ workbook = NoWorkbook
    /\ sheet = <<>>
    /\ row_i = 0
    /\ field_types = <<>>
    /\ messages = <<>>
    /\ msg = NoMsg
    /\ last_def_number = 0
    /\ ret = NoRet

InitValue ==
    /\ pc = "ready"
    /\ \/ a \in UnaryInputs /\ b = NoValue
       \/ \E p \in AddInputs : a = p[1] /\ b = p[2]
    /\ endian \in {"little", "big"}
    /\ overflowChecks \in BOOLEAN
    /\ res = NoRes
    /\ ProfileIdle
    /\ ResolverIdle

profileVars == <<workbook, sheet, row_i, field_types, messages, msg, last_def_number, ret>>

CallIsValid ==
    /\ pc = "ready" /\ b = NoValue
    /\ res' = [op |-> "is_valid", out |-> is_valid(a)]
    /\ pc' = "returned"
    /\ UNCHANGED <<a, b, endian, overflowChecks, profileVars, resolverVars>>

CallAsF64 ==
    /\ pc = "ready" /\ b = NoValue
    /\ res' = [op |-> "as_f64", out |-> as_f64(a)]
    /\ pc' = "returned"
    /\ UNCHANGED <<a, b, endian, overflowChecks, profileVars, resolverVars>>

CallAsI64 ==
    /\ pc = "ready" /\ b = NoValue
    /\ res' = [op |-> "as_i64", out |-> as_i64(a)]
    /\ pc' = "returned"
    /\ UNCHANGED <<a, b, endian, overflowChecks, profileVars, resolverVars>>

CallToNeBytes ==
    /\ pc = "ready" /\ b = NoValue
    /\ res' = [op |-> "to_ne_bytes", out |-> to_ne_bytes(a, endian)]
    /\ pc' = "returned"
    /\ UNCHANGED <<a, b, endian, overflowChecks, profileVars, resolverVars>>

\* a + b: the caller gets the sum, or is unwound by the panic
CallAdd ==
    /\ pc = "ready" /\ b # NoValue
    /\ LET r == add(a, b, overflowChecks) IN
         /\ res' = [op |-> "add", out |-> r]
         /\ pc' = IF r.kind = "panic" THEN "panicked" ELSE "returned"
    /\ UNCHANGED <<a, b, endian, overflowChecks, profileVars, resolverVars>>

\* a += b: a is replaced by the sum, or the caller is unwound by the panic
CallAddAssign ==
    /\ pc = "ready" /\ b # NoValue
    /\ LET r == add_assign(a, b, overflowChecks) IN
         /\ res' = [op |-> "add_assign", out |-> r]
         /\ pc' = IF r.kind = "panic" THEN "panicked" ELSE "returned"
         /\ a' = IF r.kind = "panic" THEN a ELSE r.val
    /\ UNCHANGED <<b, endian, overflowChecks, profileVars, resolverVars>>

NextValue ==
    \/ CallIsValid
    \/ CallAsF64
    \/ CallAsI64
    \/ CallToNeBytes
    \/ CallAdd
    \/ CallAddAssign

SpecValue == InitValue /\ [][NextValue]_vars

(***************************************************************************)
(* Claims about the value operations, checked under SpecValue.             *)
(***************************************************************************)
\* the reserved "field not present" pattern of each integer base type
C1_Sentinel(tag) ==
    CASE tag \in {"Byte", "Enum", "UInt8"} -> <<255>>
      [] tag = "SInt8" -> <<127>>
      [] tag = "SInt16" -> <<255, 127>>
      [] tag = "SInt32" -> <<255, 255, 255, 127>>
      [] tag = "SInt64" -> <<255, 255, 255, 255, 255, 255, 255, 127>>
      [] tag = "UInt16" -> <<255, 255>>
      [] tag = "UInt32" -> <<255, 255, 255, 255>>
      [] tag = "UInt64" -> <<255, 255, 255, 255, 255, 255, 255, 255>>
      [] tag = "UInt8z" -> <<0>>
      [] tag = "UInt16z" -> <<0, 0>>
      [] tag = "UInt32z" -> <<0, 0, 0, 0>>
      [] tag = "UInt64z" -> <<0, 0, 0, 0, 0, 0, 0, 0>>

C1_ElementValid(x) ==
    CASE x.tag \in IntTags -> x.v # C1_Sentinel(x.tag)
      [] x.tag = "String" -> \A i \in 1..Len(x.v) : x.v[i] # 0
      [] x.tag \in FloatTags -> x.v.cls = "finite"
      [] x.tag = "Timestamp" -> TRUE

\* C1: is_valid of an integer value is false exactly when its payload is the
\* base type's reserved sentinel, and true for every other payload; is_valid
\* of an array is true iff the array is non-empty and every element is valid.
C1_IsValidIffNotSentinel ==
    (pc = "returned" /\ res.op = "is_valid") =>
        /\ a.tag \in IntTags => (res.out <=> a.v # C1_Sentinel(a.tag))
        /\ a.tag = "Array" =>
              (res.out <=> (Len(a.v) > 0 /\ \A i \in 1..Len(a.v) : C1_ElementValid(a.v[i])))

\* C1 witness: is_valid has returned false for an array whose second element
\* carries the uint8 sentinel.
C1_Witness ==
    /\ pc = "returned" /\ res.op = "is_valid"
    /\ a = Val("Array", <<Val("UInt8", <<1>>), Val("UInt8", <<255>>)>>)
    /\ res.out = FALSE

\* the sum of two integer elements, as a value of x's variant
C2_Sum(x, y) ==
    Val(x.tag, AddDigits(x.v, Cast(Cast(y.v, IsSigned(y.tag), I64Len), TRUE, Width(x.tag)), 0))

\* C2: the sum of two arrays has the length of the longer one, element i of
\* the common prefix is the sum of a[i] and b[i], and the longer operand's
\* trailing elements follow unchanged ([1,2,3] + [10,20] = [11,22,3]).
C2_ArrayAddElementwise ==
    (pc = "returned" /\ res.op = "add" /\ a.tag = "Array" /\ b.tag = "Array") =>
        LET r == res.out.val.v
            n == Min(Len(a.v), Len(b.v))
            longer == IF Len(a.v) >= Len(b.v) THEN a.v ELSE b.v
        IN  /\ Len(r) = Max(Len(a.v), Len(b.v))
            /\ \A i \in 1..n : r[i] = C2_Sum(a.v[i], b.v[i])
            /\ \A i \in (n + 1)..Len(r) : r[i] = longer[i]

\* the operand pairs C3 lists as incompatible
C3_Incompatible(x, y) ==
    \/ x.tag = "Timestamp"
    \/ x.tag = "String" /\ y.tag # "String"
    \/ x.tag \in IntTags \cup FloatTags /\ y.tag \in {"String", "Array"}

\* C3 as stated: on incompatible operands the call returns a TypeMismatch
\* failure value to its caller, which goes on.
C3_MismatchIsReturned ==
    (res.op \in {"add", "add_assign"} /\ C3_Incompatible(a, b)) =>
        (pc = "returned" /\ res.out.kind = "TypeMismatch")

\* C3 as amended: on incompatible operands the call panics; no value of any
\* kind is returned and the caller is unwound.
C3_MismatchPanics ==
    (res.op \in {"add", "add_assign"} /\ C3_Incompatible(a, b)) =>
        (pc = "panicked" /\ res.out.kind = "panic" /\ res.out.val = NoValue)

\* C3 witness: a numeric scalar was added to a string, and the call panicked.
C3_Witness ==
    /\ pc = "panicked" /\ res.op = "add"
    /\ a.tag = "UInt16" /\ b.tag = "String"
    /\ res.out.msg = "Cannot coerce value to integer"

\* C4: for an integer a and a numeric b, a + b is a value of a's variant
\* whose payload is a plus b coerced to a's type, reduced modulo 2^w: a sum
\* out of range wraps and does not fail (UInt8 250 + UInt8 10 = UInt8 4).
C4_IntAddWraps ==
    (res.op = "add" /\ a.tag \in IntTags /\ b.tag \in IntTags \cup FloatTags) =>
        /\ pc = "returned"
        /\ res.out.kind = "value"
        /\ res.out.val =
              Val(a.tag, AddDigits(a.v, Cast(as_i64(b).v, TRUE, Width(a.tag)), 0))

\* C5: as_f64 and as_i64 are both defined for every variant but string and
\* array, and both undefined for these two.
C5_CoercionsDefinedAlike ==
    (pc = "returned" /\ res.op \in {"as_f64", "as_i64"}) =>
        (res.out.some <=> a.tag \notin {"String", "Array"})

\* the number a little-endian byte sequence spells: byte i is digit i
C6_DecodeLE(bytes) == [i \in 1..Len(bytes) |-> bytes[i]]

RECURSIVE C6_ConcatLE(_, _)
C6_ConcatLE(vals, i) ==
    IF i > Len(vals) THEN <<>> ELSE vals[i].v \o C6_ConcatLE(vals, i + 1)

\* C6: on every target, the bytes of an integer value are as many as its
\* width and decode, as little-endian, to the payload; the bytes of an array
\* of integers are its elements' little-endian bytes in order.
C6_BytesAreLittleEndian ==
    (pc = "returned" /\ res.op = "to_ne_bytes") =>
        /\ a.tag \in IntTags =>
              (Len(res.out) = Width(a.tag) /\ C6_DecodeLE(res.out) = a.v)
        /\ (a.tag = "Array" /\ \A i \in 1..Len(a.v) : a.v[i].tag \in IntTags) =>
              res.out = C6_ConcatLE(a.v, 1)

(***************************************************************************)
(* The profile workbook (src/profile/parser.rs).  A cell is a calamine     *)
(* DataType: [k, s, n] with k its kind, s the characters of a String cell, *)
(* n the number of an Int cell or, for a Float cell, the number counted in *)
(* halves (3 is 1.5).  A row is its cells, column 0 first.                 *)
(***************************************************************************)
Empty == [k |-> "Empty", s |-> <<>>, n |-> 0]
Str(s) == [k |-> "String", s |-> s, n |-> 0]
Int_(n) == [k |-> "Int", s |-> <<>>, n |-> n]
Float_(h) == [k |-> "Float", s |-> <<>>, n |-> h]
Bool_(t) == [k |-> "Bool", s |-> <<>>, n |-> IF t THEN 1 ELSE 0]

\* row[i], columns counted from 0
Col(row, i) == row[i + 1]

\* DataType::is_empty, get_string, get_float
is_empty(c) == c.k = "Empty"
get_string(c) == IF c.k = "String" THEN Some(c.s) ELSE None
get_float(c) == IF c.k = "Float" THEN Some(c.n) ELSE None

\* v as i64 of an f64 counted in halves: truncation toward zero
F64AsI64(h) == IF h >= 0 THEN h \div 2 ELSE -((-h) \div 2)
\* v as u8 of an f64 (saturating) and of an i64 (wrapping)
F64AsU8(h) == Max(0, Min(255, F64AsI64(h)))
I64AsU8(n) == n % 256

\* char::to_digit(16)
HexDigit(c) ==
    CASE c = "0" -> 0 [] c = "1" -> 1 [] c = "2" -> 2 [] c = "3" -> 3
      [] c = "4" -> 4 [] c = "5" -> 5 [] c = "6" -> 6 [] c = "7" -> 7
      [] c = "8" -> 8 [] c = "9" -> 9
      [] c \in {"a", "A"} -> 10 [] c \in {"b", "B"} -> 11 [] c \in {"c", "C"} -> 12
      [] c \in {"d", "D"} -> 13 [] c \in {"e", "E"} -> 14 [] c \in {"f", "F"} -> 15
      [] OTHER -> -1

RECURSIVE HexValue(_, _)
\* the number the digits 1..i of src spell in base 16
HexValue(src, i) == IF i = 0 THEN 0 ELSE 16 * HexValue(src, i - 1) + HexDigit(src[i])

\* i64::from_str_radix(src, 16): an optional sign, then one hex digit or more
from_str_radix(src) ==
    LET signed == src # <<>> /\ src[1] \in {"+", "-"}
        digits == IF signed THEN Tail(src) ELSE src
    IN  IF digits = <<>> \/ \E i \in 1..Len(digits) : HexDigit(digits[i]) < 0 THEN None
        ELSE IF signed /\ src[1] = "-" THEN Some(-HexValue(digits, Len(digits)))
        ELSE Some(HexValue(digits, Len(digits)))

\* BTreeMap: the entries [key, val] in ascending order of key.
\* entry(k).or_insert(v) in place of insert(k, v): an equal key keeps its value
BTreeInsertKeepFirst(m, k, v) ==
    IF \E i \in 1..Len(m) : m[i].key = k THEN m
    ELSE LET pos == Cardinality({i \in 1..Len(m) : m[i].key < k}) IN
         SubSeq(m, 1, pos) \o <<[key |-> k, val |-> v]>> \o SubSeq(m, pos + 1, Len(m))

\* BTreeMap::insert: the value of an equal key is replaced
BTreeInsert(m, k, v) ==
    IF \E i \in 1..Len(m) : m[i].key = k
    THEN [i \in 1..Len(m) |-> IF m[i].key = k THEN [key |-> k, val |-> v] ELSE m[i]]
    ELSE LET pos == Cardinality({i \in 1..Len(m) : m[i].key < k}) IN
         SubSeq(m, 1, pos) \o <<[key |-> k, val |-> v]>> \o SubSeq(m, pos + 1, Len(m))

Ok(x) == [kind |-> "ok", v |-> x, msg |-> ""]
Panicked(m) == [kind |-> "panic", v |-> <<>>, msg |-> m]

BaseTypeNames ==
    {<<"e", "n", "u", "m">>, <<"s", "i", "n", "t", "8">>, <<"u", "i", "n", "t", "8">>,
     <<"u", "i", "n", "t", "8", "z">>, <<"s", "i", "n", "t", "1", "6">>,
     <<"u", "i", "n", "t", "1", "6">>, <<"u", "i", "n", "t", "1", "6", "z">>,
     <<"s", "i", "n", "t", "3", "2">>, <<"u", "i", "n", "t", "3", "2">>,
     <<"u", "i", "n", "t", "3", "2", "z">>}

\* base_type_to_rust_type with a catch-all arm that yields "u8"
base_type_to_rust_type_lenient(base_type_str) ==
    CASE base_type_str = <<"e", "n", "u", "m">> -> Ok("u8")
      [] base_type_str = <<"s", "i", "n", "t", "8">> -> Ok("i8")
      [] base_type_str = <<"u", "i", "n", "t", "8">> -> Ok("u8")
      [] base_type_str = <<"u", "i", "n", "t", "8", "z">> -> Ok("u8")
      [] base_type_str = <<"s", "i", "n", "t", "1", "6">> -> Ok("i16")
      [] base_type_str = <<"u", "i", "n", "t", "1", "6">> -> Ok("u16")
      [] base_type_str = <<"u", "i", "n", "t", "1", "6", "z">> -> Ok("u16")
      [] base_type_str = <<"s", "i", "n", "t", "3", "2">> -> Ok("i32")
      [] base_type_str = <<"u", "i", "n", "t", "3", "2">> -> Ok("u32")
      [] base_type_str = <<"u", "i", "n", "t", "3", "2", "z">> -> Ok("u32")
      [] OTHER -> Ok("u8")

base_type_to_rust_type(base_type_str) ==
    CASE base_type_str = <<"e", "n", "u", "m">> -> Ok("u8")
      [] base_type_str = <<"s", "i", "n", "t", "8">> -> Ok("i8")
      [] base_type_str = <<"u", "i", "n", "t", "8">> -> Ok("u8")
      [] base_type_str = <<"u", "i", "n", "t", "8", "z">> -> Ok("u8")
      [] base_type_str = <<"s", "i", "n", "t", "1", "6">> -> Ok("i16")
      [] base_type_str = <<"u", "i", "n", "t", "1", "6">> -> Ok("u16")
      [] base_type_str = <<"u", "i", "n", "t", "1", "6", "z">> -> Ok("u16")
      [] base_type_str = <<"s", "i", "n", "t", "3", "2">> -> Ok("i32")
      [] base_type_str = <<"u", "i", "n", "t", "3", "2">> -> Ok("u32")
      [] base_type_str = <<"u", "i", "n", "t", "3", "2", "z">> -> Ok("u32")
      [] OTHER -> Panicked("unsupported base_type for enum field")

FieldTypeDefintion(name, base_type) ==
    [name |-> name, base_type |-> base_type, variant_map |-> <<>>]

\* the value of an enum variant: numeric cells, and hex strings without
\* their first two characters
VariantValue(c) ==
    CASE c.k = "Float" -> Ok(F64AsI64(c.n))
      [] c.k = "Int" -> Ok(c.n)
      [] c.k = "String" ->
            IF Len(c.s) < 2 THEN Panicked("byte index 2 is out of bounds")
            ELSE LET parsed == from_str_radix(SubSeq(c.s, 3, Len(c.s))) IN
                 IF parsed.some THEN Ok(parsed.v)
                 ELSE Panicked("called Result::unwrap() on an Err value")
      [] OTHER -> Panicked("Unsupported enum variant value data type")

\* process_types: the body of the loop, for one row
types_row(fts, row) ==
    IF ~is_empty(Col(row, 0))
    THEN LET enum_name == get_string(Col(row, 0))
             base == get_string(Col(row, 1))
         IN  IF ~enum_name.some THEN Panicked("Enum type name must be a string")
             ELSE IF ~base.some THEN Panicked("Base type name must be a string")
             ELSE LET rust_type == base_type_to_rust_type(base.v) IN
                  IF rust_type.kind = "panic" THEN rust_type
                  ELSE Ok(Append(fts, FieldTypeDefintion(enum_name.v, rust_type.v)))
    ELSE IF ~is_empty(Col(row, 2))
    THEN IF fts = <<>> THEN Panicked("field_types vector was empty!")
         ELSE LET name == get_string(Col(row, 2))
                  value == VariantValue(Col(row, 3))
                  comment == get_string(Col(row, 4))
                  last == fts[Len(fts)]
              IN  IF ~name.some THEN Panicked("Enum variant name must be a string")
                  ELSE IF value.kind = "panic" THEN value
                  ELSE Ok([fts EXCEPT ![Len(fts)].variant_map =
                              BTreeInsert(last.variant_map, value.v,
                                  [name |-> name.v, value |-> value.v, comment |-> comment])])
    ELSE Ok(fts)

MessageDefinition(name) == [name |-> name, field_map |-> <<>>]

\* unwrap_or(1.0) and unwrap_or(0.0), counted in halves
DefaultScale == 2
DefaultOffset == 0

\* new_message_field_definition with the scale read as unwrap_or(0.0)
new_message_field_definition_scale0(row) ==
    LET c == Col(row, 1)
        name == get_string(Col(row, 2))
        ftype == get_string(Col(row, 3))
        scale == get_float(Col(row, 6))
        offset == get_float(Col(row, 7))
        units == get_string(Col(row, 8))
    IN  IF c.k \notin {"Float", "Int"} THEN Panicked("Field defintiton number must be an integer")
        ELSE IF ~name.some THEN Panicked("Field name must be a string")
        ELSE IF ~ftype.some THEN Panicked("Field type must be a string")
        ELSE Ok([def_number |-> IF c.k = "Float" THEN F64AsU8(c.n) ELSE I64AsU8(c.n),
                 name |-> name.v,
                 field_type |-> ftype.v,
                 scale |-> IF scale.some THEN scale.v ELSE 0,
                 offset |-> IF offset.some THEN offset.v ELSE DefaultOffset,
                 units |-> IF units.some THEN units.v ELSE <<>>,
                 comment |-> get_string(Col(row, 4))])

new_message_field_definition(row) ==
    LET c == Col(row, 1)
        name == get_string(Col(row, 2))
        ftype == get_string(Col(row, 3))
        scale == get_float(Col(row, 6))
        offset == get_float(Col(row, 7))
        units == get_string(Col(row, 8))
    IN  IF c.k \notin {"Float", "Int"} THEN Panicked("Field defintiton number must be an integer")
        ELSE IF ~name.some THEN Panicked("Field name must be a string")
        ELSE IF ~ftype.some THEN Panicked("Field type must be a string")
        ELSE Ok([def_number |-> IF c.k = "Float" THEN F64AsU8(c.n) ELSE I64AsU8(c.n),
                 name |-> name.v,
                 field_type |-> ftype.v,
                 scale |-> IF scale.some THEN scale.v ELSE DefaultScale,
                 offset |-> IF offset.some THEN offset.v ELSE DefaultOffset,
                 units |-> IF units.some THEN units.v ELSE <<>>,
                 comment |-> get_string(Col(row, 4))])

\* process_messages: the first data row opens the first message
messages_first_row(rows, i) ==
    IF i > Len(rows) THEN Panicked("called Option::unwrap() on a None value")
    ELSE LET v == get_string(Col(rows[i], 0)) IN
         IF v.some THEN Ok(MessageDefinition(v.v))
         ELSE Panicked("Message name must be a string")

\* messages_row with the sub-field branch failing instead of doing nothing
messages_row_rejecting(st, row) ==
    IF ~is_empty(Col(row, 0))
    THEN LET v == get_string(Col(row, 0)) IN
         IF v.some
         THEN Ok([st EXCEPT !.messages = Append(st.messages, st.msg),
                            !.msg = MessageDefinition(v.v)])
         ELSE Panicked("Message name must be a string")
    ELSE IF ~is_empty(Col(row, 1))
    THEN LET field == new_message_field_definition(row) IN
         IF field.kind = "panic" THEN field
         ELSE Ok([st EXCEPT !.last_def_number = field.v.def_number,
                            !.msg.field_map =
                                BTreeInsert(st.msg.field_map, field.v.def_number, field.v)])
    ELSE Panicked("UnsupportedSpecFeature")

\* process_messages: the body of the loop, for one row; st is the locals
\* [messages, msg, last_def_number]
messages_row(st, row) ==
    IF ~is_empty(Col(row, 0))
    THEN LET v == get_string(Col(row, 0)) IN
         IF v.some
         THEN Ok([st EXCEPT !.messages = Append(st.messages, st.msg),
                            !.msg = MessageDefinition(v.v)])
         ELSE Panicked("Message name must be a string")
    ELSE IF ~is_empty(Col(row, 1))
    THEN LET field == new_message_field_definition(row) IN
         IF field.kind = "panic" THEN field
         ELSE Ok([st EXCEPT !.last_def_number = field.v.def_number,
                            !.msg.field_map =
                                BTreeInsert(st.msg.field_map, field.v.def_number, field.v)])
    ELSE \* TODO handle subfield using the last_def_number
         Ok(st)

(***************************************************************************)
(* The workbooks parse_profile is given.                                   *)
(***************************************************************************)
S_A == <<"A">>
S_B == <<"B">>
S_enum == <<"e", "n", "u", "m">>
S_uint8 == <<"u", "i", "n", "t", "8">>
S_uint16 == <<"u", "i", "n", "t", "1", "6">>

TypeHeaderRow(name, base) == <<name, base, Empty, Empty, Empty>>
TypeVariantRow(name, value, comment) == <<Empty, Empty, name, value, comment>>

TypeRows ==
    {TypeHeaderRow(Str(S_A), Str(S_enum)),
     TypeHeaderRow(Str(S_B), Str(S_uint16)),
     TypeHeaderRow(Str(<<"C">>), Str(<<"b", "o", "o", "l">>)),
     TypeHeaderRow(Int_(5), Str(S_enum)),
     TypeHeaderRow(Str(S_A), Empty),
     TypeVariantRow(Str(<<"x">>), Int_(1), Str(<<"c">>)),
     TypeVariantRow(Str(<<"y">>), Str(<<"0", "x", "1", "F">>), Empty),
     TypeVariantRow(Str(<<"z">>), Float_(62), Empty),
     TypeVariantRow(Str(<<"w">>), Int_(1), Empty),
     TypeVariantRow(Str(<<"v">>), Float_(3), Empty),
     TypeVariantRow(Int_(9), Int_(1), Empty),
     TypeVariantRow(Str(<<"u">>), Bool_(TRUE), Empty),
     TypeVariantRow(Str(<<"t">>), Str(<<"0", "x", "Z">>), Empty),
     TypeVariantRow(Empty, Empty, Empty)}

MessageNameRow(name) == <<name, Empty, Empty, Empty, Empty, Empty, Empty, Empty, Empty>>
FieldSlotRow(num, name, ftype, scale, offset, units) ==
    <<Empty, num, name, ftype, Empty, Empty, scale, offset, units>>

MessageRows ==
    {MessageNameRow(Str(<<"R">>)),
     MessageNameRow(Str(<<"S">>)),
     MessageNameRow(Int_(7)),
     <<Str(<<"T">>), Int_(5), Str(<<"e">>), Str(S_uint8), Empty, Empty, Empty, Empty, Empty>>,
     FieldSlotRow(Int_(3), Str(<<"a">>), Str(S_uint8), Empty, Empty, Empty),
     FieldSlotRow(Int_(3), Str(<<"b">>), Str(S_uint16), Float_(4), Float_(1), Str(<<"m">>)),
     FieldSlotRow(Int_(7), Str(<<"c">>), Str(S_A), Empty, Empty, Empty),
     FieldSlotRow(Float_(14), Str(<<"d">>), Str(S_uint8), Int_(5), Empty, Empty),
     FieldSlotRow(Int_(259), Str(<<"f">>), Str(S_uint8), Empty, Empty, Empty),
     FieldSlotRow(Str(<<"3">>), Str(<<"g">>), Str(S_uint8), Empty, Empty, Empty),
     FieldSlotRow(Int_(5), Int_(1), Str(S_uint8), Empty, Empty, Empty),
     FieldSlotRow(Empty, Str(<<"s">>), Str(S_uint8), Empty, Empty, Empty),
     FieldSlotRow(Empty, Empty, Empty, Empty, Empty, Empty)}

\* the column titles that rows().skip(1) and rows().skip(2) pass over
TypesTitles == <<TypeHeaderRow(Str(<<"#">>), Str(<<"#">>))>>
MessagesTitles == <<MessageNameRow(Str(<<"#">>)), MessageNameRow(Empty)>>

SheetOf(rows) == [present |-> TRUE, rows |-> rows]
MissingSheet == [present |-> FALSE, rows |-> <<>>]

BasicTypes ==
    SheetOf(TypesTitles \o <<TypeHeaderRow(Str(S_A), Str(S_enum)),
                             TypeVariantRow(Str(<<"x">>), Int_(1), Empty)>>)
BasicMessages ==
    SheetOf(MessagesTitles \o <<MessageNameRow(Str(<<"R">>)),
                                FieldSlotRow(Int_(3), Str(<<"a">>), Str(S_uint8),
                                             Empty, Empty, Empty)>>)

\* a workbook whose Types sheet has the data rows d, one whose Messages
\* sheet has the data rows d
WithTypes(d) ==
    [readable |-> TRUE, Types |-> SheetOf(TypesTitles \o d), Messages |-> BasicMessages]
WithMessages(d) ==
    [readable |-> TRUE, Types |-> BasicTypes, Messages |-> SheetOf(MessagesTitles \o d)]
\* workbooks that cannot be opened, lack a sheet or have an empty one
OddWorkbooks ==
    {[readable |-> FALSE, Types |-> MissingSheet, Messages |-> MissingSheet]}
    \cup {[readable |-> TRUE, Types |-> t, Messages |-> m] :
            t \in {MissingSheet, BasicTypes, SheetOf(<<>>)},
            m \in {MissingSheet, BasicMessages, SheetOf(<<>>)}}

(***************************************************************************)
(* parse_profile as a state machine: one step per sheet row.               *)
(***************************************************************************)
valueVars == <<a, b, endian, overflowChecks, res>>

InitProfile ==
    /\ pc = "parse_profile"
    /\ \/ \E k \in 0..MaxTypeRows : \E d \in [1..k -> TypeRows] : workbook = WithTypes(d)
       \/ \E k \in 0..MaxMsgRows : \E d \in [1..k -> MessageRows] : workbook = WithMessages(d)
       \/ workbook \in OddWorkbooks
    /\ sheet = <<>>
    /\ row_i = 0
    /\ field_types = <<>>
    /\ messages = <<>>
    /\ msg = NoMsg
    /\ last_def_number = 0
    /\ ret = NoRet
    /\ a = NoValue /\ b = NoValue /\ endian = "little" /\ overflowChecks = FALSE
    /\ res = NoRes
    /\ ResolverIdle

PanicRet(m) == [kind |-> "panic", msg |-> m, field_types |-> <<>>, messages |-> <<>>]

\* open_workbook(..)? and the Types sheet: process_types starts after the
\* title row
OpenWorkbook ==
    /\ pc = "parse_profile"
    /\ IF ~workbook.readable
       THEN /\ pc' = "returned"
            /\ ret' = [NoRet EXCEPT !.kind = "Err"]
            /\ UNCHANGED <<sheet, row_i>>
       ELSE IF ~workbook.Types.present
       THEN /\ pc' = "panicked"
            /\ ret' = PanicRet("Could not access workbook sheet 'Types'")
            /\ UNCHANGED <<sheet, row_i>>
       ELSE /\ pc' = "process_types"
            /\ sheet' = workbook.Types.rows
            /\ row_i' = 2
            /\ UNCHANGED ret
    /\ UNCHANGED <<workbook, field_types, messages, msg, last_def_number, valueVars, resolverVars>>

\* process_types: one turn of the loop
TypesRow ==
    /\ pc = "process_types"
    /\ row_i <= Len(sheet)
    /\ LET r == types_row(field_types, sheet[row_i]) IN
         IF r.kind = "panic"
         THEN /\ pc' = "panicked"
              /\ ret' = PanicRet(r.msg)
              /\ UNCHANGED <<field_types, row_i>>
         ELSE /\ field_types' = r.v
              /\ row_i' = row_i + 1
              /\ UNCHANGED <<pc, ret>>
    /\ UNCHANGED <<workbook, sheet, messages, msg, last_def_number, valueVars, resolverVars>>

\* process_types returns; the Messages sheet: process_messages starts after
\* the two title rows
TypesReturn ==
    /\ pc = "process_types"
    /\ row_i > Len(sheet)
    /\ IF ~workbook.Messages.present
       THEN /\ pc' = "panicked"
            /\ ret' = PanicRet("Could not access workbook sheet 'Messages'")
            /\ UNCHANGED <<sheet, row_i>>
       ELSE /\ pc' = "process_messages_first"
            /\ sheet' = workbook.Messages.rows
            /\ row_i' = 3
            /\ UNCHANGED ret
    /\ UNCHANGED <<workbook, field_types, messages, msg, last_def_number, valueVars, resolverVars>>

\* process_messages: rows.next().unwrap() and the first message
MessagesFirstRow ==
    /\ pc = "process_messages_first"
    /\ LET r == messages_first_row(sheet, row_i) IN
         IF r.kind = "panic"
         THEN /\ pc' = "panicked"
              /\ ret' = PanicRet(r.msg)
              /\ UNCHANGED <<msg, row_i>>
         ELSE /\ pc' = "process_messages"
              /\ msg' = r.v
              /\ row_i' = row_i + 1
              /\ UNCHANGED ret
    /\ UNCHANGED <<workbook, sheet, field_types, messages, last_def_number, valueVars, resolverVars>>

\* process_messages: one turn of the loop
MessagesRow ==
    /\ pc = "process_messages"
    /\ row_i <= Len(sheet)
    /\ LET st == [messages |-> messages, msg |-> msg, last_def_number |-> last_def_number]
           r == messages_row(st, sheet[row_i])
       IN  IF r.kind = "panic"
           THEN /\ pc' = "panicked"
                /\ ret' = PanicRet(r.msg)
                /\ UNCHANGED <<messages, msg, last_def_number, row_i>>
           ELSE /\ messages' = r.v.messages
                /\ msg' = r.v.msg
                /\ last_def_number' = r.v.last_def_number
                /\ row_i' = row_i + 1
                /\ UNCHANGED <<pc, ret>>
    /\ UNCHANGED <<workbook, sheet, field_types, valueVars, resolverVars>>

\* MessagesReturn without the messages.push(msg) that follows the loop
MessagesReturnNoPush ==
    /\ pc = "process_messages"
    /\ row_i > Len(sheet)
    /\ ret' = [kind |-> "Ok", msg |-> "", field_types |-> field_types,
               messages |-> messages]
    /\ pc' = "returned"
    /\ UNCHANGED <<workbook, sheet, row_i, field_types, messages, msg, last_def_number,
                   valueVars, resolverVars>>

\* process_messages: messages.push(msg) after the loop; parse_profile
\* returns Ok(FitProfile{field_types, messages})
MessagesReturn ==
    /\ pc = "process_messages"
    /\ row_i > Len(sheet)
    /\ messages' = Append(messages, msg)
    /\ ret' = [kind |-> "Ok", msg |-> "", field_types |-> field_types,
               messages |-> Append(messages, msg)]
    /\ pc' = "returned"
    /\ UNCHANGED <<workbook, sheet, row_i, field_types, msg, last_def_number, valueVars, resolverVars>>

NextProfile ==
    \/ OpenWorkbook
    \/ TypesRow
    \/ TypesReturn
    \/ MessagesFirstRow
    \/ MessagesRow
    \/ MessagesReturn

SpecProfile == InitProfile /\ [][NextProfile]_vars

(***************************************************************************)
(* Claims about the profile compiler, checked under SpecProfile.           *)
(***************************************************************************)
\* the Types rows scanned so far without a failure (row 1 is the titles)
TypesScanned ==
    IF pc = "process_types" THEN row_i - 1
    ELSE IF pc \in {"process_messages_first", "process_messages"} \/ ret.kind = "Ok"
    THEN Len(workbook.Types.rows)
    ELSE 0

C7_Rows == workbook.Types.rows
C7_IsHeader(row) == Col(row, 0).k # "Empty"
C7_IsVariant(row) == Col(row, 0).k = "Empty" /\ Col(row, 2).k # "Empty"
C7_Headers == {i \in 2..TypesScanned : C7_IsHeader(C7_Rows[i])}
\* the header row that started the k-th definition
C7_HeaderOf(k) ==
    CHOOSE h \in C7_Headers : Cardinality({g \in C7_Headers : g <= h}) = k
\* the variant rows whose nearest preceding header row is h
C7_VariantsOf(h) ==
    {i \in 2..TypesScanned :
        /\ C7_IsVariant(C7_Rows[i])
        /\ h < i
        /\ ~\E g \in C7_Headers : h < g /\ g < i}
\* the signed 64-bit key a value cell stands for
C7_Key(c) ==
    CASE c.k = "Int" -> c.n
      [] c.k = "Float" -> c.n \div 2
      [] c.k = "String" -> HexValue(SubSeq(c.s, 3, Len(c.s)), Len(c.s) - 2)

\* C7: every variant row is added to the definition started by the nearest
\* preceding header row and to no other; integer, float and 0x-prefixed hex
\* values become the same i64 keys; each variant map has unique keys in
\* ascending order, and of two rows with one value the later is kept.
C7_TypesCompiled ==
    (pc \in {"process_types", "process_messages_first", "process_messages"}
        \/ ret.kind = "Ok") =>
        /\ Len(field_types) = Cardinality(C7_Headers)
        /\ \A k \in 1..Len(field_types) :
              LET h == C7_HeaderOf(k)
                  vs == C7_VariantsOf(h)
                  m == field_types[k].variant_map
              IN  /\ field_types[k].name = Col(C7_Rows[h], 0).s
                  /\ {m[j].key : j \in 1..Len(m)} = {C7_Key(Col(C7_Rows[i], 3)) : i \in vs}
                  /\ \A j \in 1..(Len(m) - 1) : m[j].key < m[j + 1].key
                  /\ \A j \in 1..Len(m) :
                        LET last == CHOOSE i \in vs :
                                /\ C7_Key(Col(C7_Rows[i], 3)) = m[j].key
                                /\ \A i2 \in vs :
                                      C7_Key(Col(C7_Rows[i2], 3)) = m[j].key => i2 <= i
                        IN  /\ m[j].val.name = Col(C7_Rows[last], 2).s
                            /\ m[j].val.value = m[j].key

\* C7 witness: one header row followed by the variants 1 and 0x1F has been
\* compiled into one definition with exactly the keys 1 and 31, in that order.
C7_Witness ==
    /\ ret.kind = "Ok"
    /\ workbook.Types.rows = TypesTitles \o
          <<TypeHeaderRow(Str(S_A), Str(S_enum)),
            TypeVariantRow(Str(<<"x">>), Int_(1), Str(<<"c">>)),
            TypeVariantRow(Str(<<"y">>), Str(<<"0", "x", "1", "F">>), Empty)>>
    /\ Len(ret.field_types) = 1
    /\ Len(ret.field_types[1].variant_map) = 2
    /\ ret.field_types[1].variant_map[1].key = 1
    /\ ret.field_types[1].variant_map[2].key = 31

\* the rows C8 calls malformed, and the missing sections
C8_MalformedTypesRow(i) ==
    LET row == workbook.Types.rows[i] IN
    \/ C7_IsVariant(row) /\ ~\E h \in 2..(i - 1) : C7_IsHeader(workbook.Types.rows[h])
    \/ C7_IsHeader(row) /\ Col(row, 1).k = "String" /\ Col(row, 1).s \notin BaseTypeNames
    \/ C7_IsHeader(row) /\ Col(row, 0).k # "String"
    \/ C7_IsVariant(row) /\ Col(row, 2).k # "String"
    \/ C7_IsVariant(row) /\ Col(row, 3).k \notin {"Int", "Float", "String"}

C8_MalformedMessagesRow(i) ==
    LET row == workbook.Messages.rows[i] IN
    \/ Col(row, 0).k \notin {"Empty", "String"}
    \/ Col(row, 0).k = "Empty" /\ Col(row, 1).k # "Empty" /\ Col(row, 2).k # "String"

C8_Bad ==
    \/ ~workbook.Types.present
    \/ ~workbook.Messages.present
    \/ \E i \in 2..Len(workbook.Types.rows) : C8_MalformedTypesRow(i)
    \/ \E i \in 3..Len(workbook.Messages.rows) : C8_MalformedMessagesRow(i)

\* C8 as stated: a malformed row or a missing section makes the compilation
\* return a compile error to its caller, and no catalog.
C8_ErrorIsReturned ==
    (pc \in {"returned", "panicked"} /\ workbook.readable /\ C8_Bad) =>
        (pc = "returned" /\ ret.kind = "Err")

\* C8 as amended: a malformed row or a missing section of a workbook that
\* opens makes parse_profile panic; nothing is returned, so no catalog is; a
\* catalog is returned only when no row is malformed and no section missing.
C8_AllOrNothingByPanic ==
    /\ (pc \in {"returned", "panicked"} /\ workbook.readable /\ C8_Bad) =>
          (pc = "panicked" /\ ret.kind = "panic"
              /\ ret.field_types = <<>> /\ ret.messages = <<>>)
    /\ ret.kind = "Ok" => (pc = "returned" /\ workbook.readable /\ ~C8_Bad)

\* C8 witness: a variant row came before any header row, and the compilation
\* panicked on it.
C8_Witness ==
    /\ pc = "panicked"
    /\ Len(workbook.Types.rows) >= 2
    /\ C7_IsVariant(workbook.Types.rows[2])
    /\ ret.msg = "field_types vector was empty!"

\* the Messages rows scanned so far without a failure (rows 1, 2: titles)
MessagesScanned ==
    IF pc = "process_messages" THEN row_i - 1
    ELSE IF ret.kind = "Ok" THEN Len(workbook.Messages.rows)
    ELSE 0
\* the message definitions so far, the open one last
MessagesSoFar ==
    IF pc = "process_messages" THEN Append(messages, msg)
    ELSE IF ret.kind = "Ok" THEN ret.messages
    ELSE <<>>

C9_Rows == workbook.Messages.rows
C9_IsName(row) == Col(row, 0).k # "Empty"
C9_IsSlot(row) == Col(row, 0).k = "Empty" /\ Col(row, 1).k # "Empty"
C9_Names == {i \in 3..MessagesScanned : C9_IsName(C9_Rows[i])}
C9_NameOf(k) ==
    CHOOSE h \in C9_Names : Cardinality({g \in C9_Names : g <= h}) = k
\* the field-slot rows whose nearest preceding message-name row is h
C9_SlotsOf(h) ==
    {i \in 3..MessagesScanned :
        /\ C9_IsSlot(C9_Rows[i])
        /\ h < i
        /\ ~\E g \in C9_Names : h < g /\ g < i}
\* the definition number a cell holds
C9_Number(c) == IF c.k = "Float" THEN c.n \div 2 ELSE c.n
\* every field-slot row scanned holds a definition number, 0..255
C9_NumbersInRange ==
    \A i \in 3..MessagesScanned :
        C9_IsSlot(C9_Rows[i]) => C9_Number(Col(C9_Rows[i], 1)) \in 0..255

C10_IsSubfield(row) == Col(row, 0).k = "Empty" /\ Col(row, 1).k = "Empty"
C10_HasSubfieldRow ==
    \E i \in 3..Len(workbook.Messages.rows) : C10_IsSubfield(workbook.Messages.rows[i])

\* C10 as stated: a sub-field row is never passed over with the compilation
\* going on to return a catalog: no catalog is returned for a Messages sheet
\* that has such a row (the compilation fails, with UnsupportedSpecFeature).
C10_SubfieldRowSurfaced ==
    ret.kind = "Ok" => ~C10_HasSubfieldRow

\* C10 as amended: the scan loop passes over a sub-field row: the row changes
\* no message definition and raises nothing, and the scan goes on to the next
\* row; as the first data row it fails as a message name that is no string.
C10_SubfieldRowSkipped ==
    [][/\ (pc = "process_messages" /\ row_i <= Len(sheet) /\ C10_IsSubfield(sheet[row_i])) =>
            (pc' = "process_messages" /\ row_i' = row_i + 1
                /\ UNCHANGED <<messages, msg, ret>>)
       /\ (pc = "process_messages_first" /\ row_i <= Len(sheet)
                /\ C10_IsSubfield(sheet[row_i])) =>
            (pc' = "panicked" /\ ret'.msg = "Message name must be a string")]_vars

\* C10 witness: a catalog was returned for a Messages sheet with a sub-field
\* row.
C10_Witness ==
    /\ ret.kind = "Ok"
    /\ C10_HasSubfieldRow
    /\ Len(ret.messages) = 1

\* the data rows scanned so far whose message-name column is populated
C12_NameRows ==
    {i \in 3..MessagesScanned : ~is_empty(Col(workbook.Messages.rows[i], 0))}
\* the k-th of them, in the order of the sheet
C12_KthNameRow(k) ==
    CHOOSE h \in C12_NameRows : Cardinality({g \in C12_NameRows : g <= h}) = k

\* C12: for a Messages section whose first data row is a message-name row,
\* the message definitions correspond one to one and in order to the
\* message-name rows: there are as many definitions as message-name rows,
\* the k-th definition bears the name of the k-th such row, and neither the
\* first message (opened before the loop) nor the last (still open when the
\* rows run out) is lost or duplicated, a message without field-slot rows
\* included. During the scan the open message counts as the last definition.
C12_MessagesMatchNameRows ==
    ((pc = "process_messages" \/ ret.kind = "Ok")
        /\ Len(workbook.Messages.rows) >= 3
        /\ ~is_empty(Col(workbook.Messages.rows[3], 0))) =>
        /\ Len(MessagesSoFar) = Cardinality(C12_NameRows)
        /\ \A k \in 1..Len(MessagesSoFar) :
              MessagesSoFar[k].name = Col(workbook.Messages.rows[C12_KthNameRow(k)], 0).s
        /\ ret.kind = "Ok" => Len(ret.messages) >= 1

\* three message-name rows and no field-slot row: a catalog of three message
\* definitions, the first and the last among them, each without a slot
C12_Witness ==
    /\ ret.kind = "Ok"
    /\ Len(workbook.Messages.rows) = 5
    /\ \A i \in 3..5 : ~is_empty(Col(workbook.Messages.rows[i], 0))
    /\ Len(ret.messages) = 3
    /\ \A k \in 1..3 : ret.messages[k].field_map = <<>>
    /\ ret.messages[1].name # ret.messages[2].name

(***************************************************************************)
(* process_messages as one function of the sheet: the scan of the rows     *)
(* from the first data row to the last, and the final push.                *)
(***************************************************************************)
RECURSIVE messages_scan(_, _, _)
messages_scan(st, rows, i) ==
    IF i > Len(rows) THEN Ok(Append(st.messages, st.msg))
    ELSE LET r == messages_row(st, rows[i]) IN
         IF r.kind = "panic" THEN r ELSE messages_scan(r.v, rows, i + 1)

process_messages(rows) ==
    LET first == messages_first_row(rows, 3) IN
    IF first.kind = "panic" THEN first
    ELSE messages_scan([messages |-> <<>>, msg |-> first.v, last_def_number |-> 0], rows, 4)

(***************************************************************************)
(* The field resolver, apply_data_profile: it projects the raw fields of   *)
(* a record through the compiled message definitions.                      *)
(***************************************************************************)
MaxCatalogRows == 3
MaxRawFields == 3

\* the compiled definition of a message name: the first that bears it
FindMessage(catalog, name) ==
    LET hits == {j \in 1..Len(catalog) : catalog[j].name = name} IN
    IF hits = {} THEN None
    ELSE Some(catalog[CHOOSE j \in hits : \A k \in hits : j <= k])

\* the slot of a definition number in a field_map
FindSlot(field_map, n) ==
    LET hits == {j \in 1..Len(field_map) : field_map[j].key = n} IN
    IF hits = {} THEN None
    ELSE Some(field_map[CHOOSE j \in hits : TRUE].val)

\* the slot a raw field of a message resolves to, if the profile has one
LookupSlot(catalog, message, n) ==
    LET m == FindMessage(catalog, message) IN
    IF ~m.some THEN None ELSE FindSlot(m.v.field_map, n)

\* the name synthesised for a definition number the profile does not have
FallbackName(n) == <<"unknown_field", n>>

\* the integer a little-endian digit sequence counts
RECURSIVE DigitsValue(_)
DigitsValue(d) == IF d = <<>> THEN 0 ELSE d[1] + 256 * DigitsValue(Tail(d))

\* physical = raw / scale - offset, as the fraction num / den (scale and
\* offset are counted in halves); an unscaled or non-numeric value is passed
\* through as it is
Physical(v, scale, offset) ==
    IF v.tag \in {"UInt8", "UInt16"} /\ ~(scale = DefaultScale /\ offset = DefaultOffset)
    THEN [tag |-> "Scaled", num |-> 4 * DigitsValue(v.v) - offset * scale, den |-> 2 * scale]
    ELSE v

\* resolve_field with no name synthesised for an unknown slot
resolve_field_unnamed(catalog, message, f) ==
    LET slot == LookupSlot(catalog, message, f.def_number) IN
    IF slot.some
    THEN [def_number |-> f.def_number, name |-> slot.v.name, units |-> slot.v.units,
          scale |-> slot.v.scale, offset |-> slot.v.offset,
          value |-> Physical(f.value, slot.v.scale, slot.v.offset), raw_value |-> f.value]
    ELSE [def_number |-> f.def_number, name |-> <<>>, units |-> <<>>,
          scale |-> DefaultScale, offset |-> DefaultOffset,
          value |-> f.value, raw_value |-> f.value]

\* one raw field through the profile: the known slot's declarations, or the
\* fallback of an unknown one
resolve_field(catalog, message, f) ==
    LET slot == LookupSlot(catalog, message, f.def_number) IN
    IF slot.some
    THEN [def_number |-> f.def_number, name |-> slot.v.name, units |-> slot.v.units,
          scale |-> slot.v.scale, offset |-> slot.v.offset,
          value |-> Physical(f.value, slot.v.scale, slot.v.offset), raw_value |-> f.value]
    ELSE [def_number |-> f.def_number, name |-> FallbackName(f.def_number), units |-> <<>>,
          scale |-> DefaultScale, offset |-> DefaultOffset,
          value |-> f.value, raw_value |-> f.value]

\* the rows the catalogs of the resolver are compiled from
CatalogRows ==
    {MessageNameRow(Str(<<"R">>)),
     MessageNameRow(Str(<<"S">>)),
     FieldSlotRow(Int_(3), Str(<<"a">>), Str(S_uint8), Empty, Empty, Empty),
     FieldSlotRow(Int_(3), Str(<<"b">>), Str(S_uint16), Float_(4), Float_(1), Str(<<"m">>)),
     FieldSlotRow(Int_(7), Str(<<"c">>), Str(S_A), Empty, Empty, Empty)}

RawField(n, v) == [def_number |-> n, value |-> v]
RawFields ==
    {RawField(3, Val("UInt8", <<5>>)),
     RawField(7, Val("UInt8", <<255>>)),
     RawField(9, Val("String", <<97>>))}
RawMessages == {<<"R">>, <<"Q">>}

InitResolve ==
    /\ pc = "apply_data_profile"
    /\ \E k \in 1..MaxCatalogRows : \E d \in [1..k -> CatalogRows] :
         LET c == process_messages(MessagesTitles \o d) IN
           /\ c.kind = "ok"
           /\ messages = c.v
    /\ \E m \in RawMessages : \E k \in 0..MaxRawFields : \E fs \in [1..k -> RawFields] :
         record = [message |-> m, fields |-> fs]
    /\ decoded = <<>>
    /\ workbook = NoWorkbook
    /\ sheet = <<>>
    /\ row_i = 0
    /\ field_types = <<>>
    /\ msg = NoMsg
    /\ last_def_number = 0
    /\ ret = NoRet
    /\ a = NoValue /\ b = NoValue /\ endian = "little" /\ overflowChecks = FALSE
    /\ res = NoRes

\* the next raw field of the record is resolved and appended
ResolveField ==
    /\ pc = "apply_data_profile"
    /\ Len(decoded) < Len(record.fields)
    /\ decoded' = Append(decoded, resolve_field(messages, record.message,
                                                record.fields[Len(decoded) + 1]))
    /\ UNCHANGED <<pc, record, valueVars, profileVars>>

\* every raw field was resolved: the decoded record is returned
ResolveReturn ==
    /\ pc = "apply_data_profile"
    /\ Len(decoded) = Len(record.fields)
    /\ pc' = "returned"
    /\ UNCHANGED <<record, decoded, valueVars, profileVars>>

NextResolve ==
    \/ ResolveField
    \/ ResolveReturn

SpecResolve == InitResolve /\ [][NextResolve]_vars

(***************************************************************************)
(* Claim about the resolver, checked under SpecResolve.                    *)
(***************************************************************************)
\* the slot the catalog declares for the i-th raw field: that of the
\* definition compiled for the record's message name (the first, when the
\* sheet named the message twice), read from the compiled catalog itself
C11_Home ==
    {j \in 1..Len(messages) :
        /\ messages[j].name = record.message
        /\ \A h \in 1..(j - 1) : messages[h].name # record.message}

C11_Declared(i) ==
    {s \in UNION {{messages[j].field_map[k] : k \in 1..Len(messages[j].field_map)} :
                    j \in C11_Home} :
        s.key = record.fields[i].def_number}

\* C11: resolving a raw record against a compiled catalog yields one decoded
\* field per raw field, at the raw field's position whatever the order of the
\* profile's slots: a raw field whose message and definition number are in
\* the catalog carries the declared name, scale, offset and unit; one whose
\* message or number is absent is kept, with no error, under a name
\* synthesised from its number, scale 1, offset 0 and its raw value.
C11_OneDecodedFieldPerRawField ==
    /\ Len(decoded) <= Len(record.fields)
    /\ pc = "returned" => Len(decoded) = Len(record.fields)
    /\ \A i \in 1..Len(decoded) :
         /\ decoded[i].def_number = record.fields[i].def_number
         /\ decoded[i].raw_value = record.fields[i].value
         /\ \A s \in C11_Declared(i) :
              /\ decoded[i].name = s.val.name
              /\ decoded[i].scale = s.val.scale
              /\ decoded[i].offset = s.val.offset
              /\ decoded[i].units = s.val.units
         /\ C11_Declared(i) = {} =>
              /\ decoded[i].name = FallbackName(record.fields[i].def_number)
              /\ decoded[i].scale = DefaultScale
              /\ decoded[i].offset = DefaultOffset
              /\ decoded[i].value = record.fields[i].value

\* slots 3 and 7 are declared for message R, in that order in the profile,
\* and the raw fields 7, 3, 9 of an R record were resolved in their own order
C11_Witness ==
    /\ pc = "returned"
    /\ record.message = <<"R">>
    /\ Len(messages) = 1
    /\ [k \in 1..Len(messages[1].field_map) |-> messages[1].field_map[k].key] = <<3, 7>>
    /\ [i \in 1..Len(record.fields) |-> record.fields[i].def_number] = <<7, 3, 9>>
    /\ [i \in 1..Len(decoded) |-> decoded[i].def_number] = <<7, 3, 9>>
    /\ decoded[3].name = FallbackName(9)

====
